---------------------------- MODULE Spec2Model ----------------------------
(***************************************************************************)
(* A model of rim's text buffer (src/src/buffer.rs) and of the parts of    *)
(* the editor (src/src/rim.rs) that drive it.                              *)
(*                                                                         *)
(* Characters are their Unicode code points.  Rust's Vec and array         *)
(* indices are 0-based; TLA+ sequences are 1-based, so element i of a Vec  *)
(* v is v[i + 1].  A Rust panic (index out of range, unwrap of None/Err,   *)
(* usize subtraction below zero in a build with overflow checks) is the    *)
(* flag `panicked`: once it is set no operation runs any more.             *)
(***************************************************************************)
EXTENDS Integers, Sequences, FiniteSets, TLC

VARIABLES
    data,       \* Buffer.data: Vec<Vec<char>>
    cur_col,    \* Buffer.cur_col
    cur_row,    \* Buffer.cur_row
    buf_row,    \* Buffer.buf_row: despite its name, the first COLUMN printed
    buf_col,    \* Buffer.buf_col: despite its name, the first ROW printed
    window,     \* Rim.window: the character grid print() paints into
    saved,      \* the bytes the last save() handed to the file, or NoFile
    panicked,   \* TRUE once an operation has panicked
    op,         \* the last operation called, with its arguments
    ret,        \* what the last operation returned (move_up / move_down)
    pc,         \* position in a scripted scenario ("edit" = free editing)
    orig,       \* scenario bookkeeping: the state before the scenario began
    pre,        \* history, kept when pre.on: the Buffer the last operation
                \* was called on
    steps,      \* scenario bookkeeping: calls made since the scenario began
    window_width,   \* Rim.window_width: the terminal's columns
    window_height,  \* Rim.window_height: the terminal's rows
    exit        \* Rim.exit

vars == <<data, cur_col, cur_row, buf_row, buf_col, window, saved, panicked,
          op, ret, pc, orig, pre, steps, window_width, window_height, exit>>

\* The fields of Rim that only the event loop changes.
term == <<window_width, window_height, exit>>

---------------------------------------------------------------------------
(* Bounds of the model. *)

\* The most elements (content characters and sentinels) a Document may hold:
\* insert_char and insert_nl are not offered beyond it.
MaxCells == 6

\* The most bytes of the file Buffer::new loads.
MaxFileLen == 3

---------------------------------------------------------------------------
(* Characters. *)

NUL == 0        \* '\0', the sentinel ending every line
LF == 10        \* '\n'
CR == 13        \* '\r'
SPACE == 32     \* ' '
TILDE == 126    \* '~'

\* The characters the keyboard delivers to insert_char in the editing model.
Chars == {97, 98}

\* The bytes of the files loaded at startup in the editing model.
FileBytes == {97, 98, LF, CR}

\* In place of a file's bytes: there is no file at the path.
NoFile == <<-1>>

Min(a, b) == IF a < b THEN a ELSE b

\* v[from..] and v[..to) of a Vec, 0-based, `to` exclusive.
SliceFrom(v, from) == SubSeq(v, from + 1, Len(v))
SliceTo(v, to) == SubSeq(v, 1, to)

\* An insert that puts x after element i instead of before it.
VecInsertAfter(v, i, x) == SliceTo(v, i + 1) \o <<x>> \o SliceFrom(v, i + 1)

\* Vec::insert(i, x): panics unless i <= len; callers check that.
VecInsert(v, i, x) == SliceTo(v, i) \o <<x>> \o SliceFrom(v, i)

\* Vec::remove(i): panics unless i < len; callers check that.
VecRemove(v, i) == SliceTo(v, i) \o SliceFrom(v, i + 1)

\* All sequences over S of length at most n.
SeqsUpTo(S, n) == UNION {[1..k -> S] : k \in 0..n}

---------------------------------------------------------------------------
(* The Buffer as a value, so that methods calling methods compose. *)

Self ==
    [data |-> data, cur_col |-> cur_col, cur_row |-> cur_row,
     buf_row |-> buf_row, buf_col |-> buf_col, panicked |-> panicked]

Panic(b) == [b EXCEPT !.panicked = TRUE]

\* self.data[self.cur_row] can be indexed
RowOk(b) == b.cur_row < Len(b.data)

CurLine(b) == b.data[b.cur_row + 1]

---------------------------------------------------------------------------
(* Cursor movement: impl Buffer, "Cursor Movement". *)

\* A reset_x that forgets to clamp.
reset_x_unclamped(b) == b

reset_x(b) ==
    IF b.panicked THEN b
    ELSE IF ~RowOk(b) THEN Panic(b)                 \* self.data[self.cur_row]
    ELSE IF Len(CurLine(b)) = 0 THEN Panic(b)       \* len() - 1 below zero
    ELSE [b EXCEPT !.cur_col = Min(b.cur_col, Len(CurLine(b)) - 1)]

\* A move_start_of_line that leaves the column alone.
move_start_of_line_noop(b) == b

move_start_of_line(b) ==
    IF b.panicked THEN b ELSE [b EXCEPT !.cur_col = 0]

\* A move_end_of_line that stops on the last content character.
move_end_of_line_content(b) ==
    IF b.panicked THEN b
    ELSE IF ~RowOk(b) THEN Panic(b)
    ELSE IF Len(CurLine(b)) < 2 THEN [b EXCEPT !.cur_col = 0]
    ELSE [b EXCEPT !.cur_col = Len(CurLine(b)) - 2]

move_end_of_line(b) ==
    IF b.panicked THEN b
    ELSE IF ~RowOk(b) THEN Panic(b)
    ELSE IF Len(CurLine(b)) = 0 THEN Panic(b)
    ELSE [b EXCEPT !.cur_col = Len(CurLine(b)) - 1]

\* Both moves return the buffer and the bool the method returns.
move_up(b) ==
    IF b.panicked THEN [buf |-> b, ret |-> FALSE]
    ELSE IF b.cur_row > 0
    THEN [buf |-> reset_x([b EXCEPT !.cur_row = b.cur_row - 1]), ret |-> TRUE]
    ELSE [buf |-> b, ret |-> FALSE]

\* A move_down that reports success although it kept the column it had.
move_down_unclamped(b) ==
    IF b.panicked THEN [buf |-> b, ret |-> FALSE]
    ELSE IF Len(b.data) = 0 THEN [buf |-> Panic(b), ret |-> FALSE]
    ELSE IF b.cur_row < Len(b.data) - 1
    THEN [buf |-> [b EXCEPT !.cur_row = b.cur_row + 1], ret |-> TRUE]
    ELSE [buf |-> b, ret |-> FALSE]

move_down(b) ==
    IF b.panicked THEN [buf |-> b, ret |-> FALSE]
    ELSE IF Len(b.data) = 0 THEN [buf |-> Panic(b), ret |-> FALSE]
    ELSE IF b.cur_row < Len(b.data) - 1
    THEN [buf |-> reset_x([b EXCEPT !.cur_row = b.cur_row + 1]), ret |-> TRUE]
    ELSE [buf |-> b, ret |-> FALSE]

move_right(b) ==
    IF b.panicked THEN b
    ELSE IF ~RowOk(b) THEN Panic(b)
    ELSE IF Len(CurLine(b)) = 0 THEN Panic(b)
    ELSE IF b.cur_col < Len(CurLine(b)) - 1
    THEN [b EXCEPT !.cur_col = b.cur_col + 1]
    ELSE LET m == move_down(b)
         IN  IF m.ret THEN move_start_of_line(m.buf) ELSE m.buf

move_left(b) ==
    IF b.panicked THEN b
    ELSE IF b.cur_col > 0
    THEN [b EXCEPT !.cur_col = b.cur_col - 1]
    ELSE LET m == move_up(b)
         IN  IF m.ret THEN move_end_of_line(m.buf) ELSE m.buf

---------------------------------------------------------------------------
(* Edit operations: impl Buffer. *)

\* A truncate that is not followed by the push of the sentinel.
truncate_only(line, col) == SliceTo(line, col)

\* line.truncate(col); line.push('\0')
truncate_push(line, col) == SliceTo(line, col) \o <<NUL>>

\* An insert_nl that leaves the column to move_down's clamp.
insert_nl_no_home(b) ==
    IF b.panicked THEN b
    ELSE IF ~RowOk(b) THEN Panic(b)
    ELSE IF b.cur_col > Len(CurLine(b)) THEN Panic(b)
    ELSE
      LET newline == SliceFrom(CurLine(b), b.cur_col)
          withnew == VecInsert(b.data, b.cur_row + 1, newline)
          trimmed == [withnew EXCEPT
                        ![b.cur_row + 1] = truncate_push(@, b.cur_col)]
          b1 == [b EXCEPT !.data = trimmed]
      IN  move_down(b1).buf

insert_nl(b) ==
    IF b.panicked THEN b
    ELSE IF ~RowOk(b) THEN Panic(b)
    ELSE IF b.cur_col > Len(CurLine(b)) THEN Panic(b)   \* [cur_col..]
    ELSE
      LET newline == SliceFrom(CurLine(b), b.cur_col)
          withnew == VecInsert(b.data, b.cur_row + 1, newline)
          trimmed == [withnew EXCEPT
                        ![b.cur_row + 1] = truncate_push(@, b.cur_col)]
          b1 == [b EXCEPT !.data = trimmed]
      IN  move_start_of_line(move_down(b1).buf)

\* A join_line that leaves the cursor where move_up put it.
join_line_keep_col(b) ==
    IF b.panicked THEN b
    ELSE IF b.cur_row = 0 THEN b
    ELSE IF b.cur_row - 1 >= Len(b.data) THEN Panic(b)
    ELSE IF Len(b.data[b.cur_row]) = 0 THEN Panic(b)
    ELSE IF ~RowOk(b) THEN Panic(b)
    ELSE
      LET above == SliceTo(b.data[b.cur_row], Len(b.data[b.cur_row]) - 1)
          removed == VecRemove(b.data, b.cur_row)
          joined == [removed EXCEPT ![b.cur_row] = above \o CurLine(b)]
      IN  move_up([b EXCEPT !.data = joined]).buf

\* A join_line that does not pop the sentinel of the Line above.
join_line_keep_sentinel(b) ==
    IF b.panicked THEN b
    ELSE IF b.cur_row = 0 THEN b
    ELSE IF b.cur_row - 1 >= Len(b.data) THEN Panic(b)
    ELSE IF ~RowOk(b) THEN Panic(b)
    ELSE
      LET above == b.data[b.cur_row]
          above_line_len == Len(above)
          removed == VecRemove(b.data, b.cur_row)
          joined == [removed EXCEPT ![b.cur_row] = above \o CurLine(b)]
          b1 == move_up([b EXCEPT !.data = joined]).buf
      IN  IF b1.panicked THEN b1 ELSE [b1 EXCEPT !.cur_col = above_line_len]

join_line(b) ==
    IF b.panicked THEN b
    ELSE IF b.cur_row = 0 THEN b
    ELSE IF b.cur_row - 1 >= Len(b.data) THEN Panic(b)
    ELSE IF Len(b.data[b.cur_row]) = 0 THEN Panic(b)    \* pop().unwrap()
    ELSE IF ~RowOk(b) THEN Panic(b)                     \* data.remove(cur_row)
    ELSE
      LET above == SliceTo(b.data[b.cur_row], Len(b.data[b.cur_row]) - 1)
          above_line_len == Len(above)
          line_to_join == CurLine(b)
          removed == VecRemove(b.data, b.cur_row)
          joined == [removed EXCEPT ![b.cur_row] = above \o line_to_join]
          b1 == move_up([b EXCEPT !.data = joined]).buf
      IN  IF b1.panicked THEN b1 ELSE [b1 EXCEPT !.cur_col = above_line_len]

insert_char(b, c) ==
    IF b.panicked THEN b
    ELSE IF ~RowOk(b) THEN Panic(b)
    ELSE IF b.cur_col > Len(CurLine(b)) THEN Panic(b)   \* Vec::insert
    ELSE move_right([b EXCEPT
            !.data[b.cur_row + 1] = VecInsert(@, b.cur_col, c)])

\* A delete_char that removes the character under the cursor, not the one
\* behind it.
delete_char_forward(b) ==
    IF b.panicked THEN b
    ELSE IF b.cur_col > 0
    THEN IF ~RowOk(b) THEN Panic(b)
         ELSE IF b.cur_col >= Len(CurLine(b)) THEN Panic(b)
         ELSE move_left([b EXCEPT
                 !.data[b.cur_row + 1] = VecRemove(@, b.cur_col)])
    ELSE join_line(b)

delete_char(b) ==
    IF b.panicked THEN b
    ELSE IF b.cur_col > 0
    THEN IF ~RowOk(b) THEN Panic(b)
         ELSE IF b.cur_col - 1 >= Len(CurLine(b)) THEN Panic(b) \* Vec::remove
         ELSE move_left([b EXCEPT
                 !.data[b.cur_row + 1] = VecRemove(@, b.cur_col - 1)])
    ELSE join_line(b)

---------------------------------------------------------------------------
(* Loading: Buffer::new, read_buffer, empty_buffer. *)

empty_buffer == << <<NUL>> >>

\* A split like str::lines, which yields no final empty piece.
RECURSIVE SplitLinesNoLast(_, _)
SplitLinesNoLast(text, line) ==
    IF text = <<>>
    THEN IF line = <<>> THEN <<>> ELSE << line \o <<NUL>> >>
    ELSE IF Head(text) = LF \/ Head(text) = CR
         THEN << line \o <<NUL>> >> \o SplitLinesNoLast(Tail(text), <<>>)
         ELSE SplitLinesNoLast(Tail(text), line \o <<Head(text)>>)

\* A split at line feeds only.
RECURSIVE SplitLinesLF(_, _)
SplitLinesLF(text, line) ==
    IF text = <<>> THEN << line \o <<NUL>> >>
    ELSE IF Head(text) = LF
         THEN << line \o <<NUL>> >> \o SplitLinesLF(Tail(text), <<>>)
         ELSE SplitLinesLF(Tail(text), line \o <<Head(text)>>)

\* str::split(|c| c == '\n' || c == '\r') followed by the map that appends
\* '\0' to every piece: the pieces between separators, empty ones included.
RECURSIVE SplitLines(_, _)
SplitLines(text, line) ==
    IF text = <<>> THEN << line \o <<NUL>> >>
    ELSE IF Head(text) = LF \/ Head(text) = CR
         THEN << line \o <<NUL>> >> \o SplitLines(Tail(text), <<>>)
         ELSE SplitLines(Tail(text), line \o <<Head(text)>>)

\* fs::read_to_string: the UTF-8 decoding of the file's bytes, for code
\* points below 2048 (one- and two-byte sequences); ok is FALSE when the
\* bytes are not UTF-8 (read_to_string returns Err).
RECURSIVE Utf8Decode(_)
Utf8Decode(bytes) ==
    IF bytes = <<>> THEN [ok |-> TRUE, chars |-> <<>>]
    ELSE IF Head(bytes) < 128
    THEN LET rest == Utf8Decode(Tail(bytes))
         IN  [ok |-> rest.ok, chars |-> <<Head(bytes)>> \o rest.chars]
    ELSE IF /\ Head(bytes) >= 194 /\ Head(bytes) < 224 /\ Len(bytes) >= 2
            /\ bytes[2] >= 128 /\ bytes[2] < 192
    THEN LET rest == Utf8Decode(Tail(Tail(bytes)))
         IN  [ok |-> rest.ok,
              chars |-> <<(Head(bytes) - 192) * 64 + (bytes[2] - 128)>>
                        \o rest.chars]
    ELSE [ok |-> FALSE, chars |-> <<>>]

\* read_buffer(file_path) applied to the file's bytes; ok is FALSE for the
\* panic of read_to_string(..).unwrap() on a file that is not UTF-8.
read_buffer(bytes) ==
    [ok |-> Utf8Decode(bytes).ok,
     lines |-> SplitLines(Utf8Decode(bytes).chars, <<>>)]

\* Buffer::new on a path that holds `file` (NoFile: no such file).
new(file) ==
    LET loaded == IF file = NoFile
                  THEN [ok |-> TRUE, lines |-> empty_buffer]
                  ELSE read_buffer(file)
    IN  [data |-> loaded.lines,
         cur_col |-> 0, cur_row |-> 0, buf_row |-> 0, buf_col |-> 0,
         panicked |-> ~loaded.ok]

---------------------------------------------------------------------------
(* Rendering: Buffer::confine_frame and Buffer::print. *)

\* The grid's capacity: MAX_ROWS and MAX_COLS are 100 and 1000 in the source;
\* the model keeps the grid and scales it down.
MAX_ROWS == 2
MAX_COLS == 2

Frame(start_row, start_col, end_row, end_col) ==
    [start_row |-> start_row, start_col |-> start_col,
     end_row |-> end_row, end_col |-> end_col]

\* A first loop that goes on while the cursor is on the first row or column
\* of the viewport: while cur <= off && off > 0 { off -= 1 }.
RECURSIVE ShiftBackFar(_, _)
ShiftBackFar(cur, off) ==
    IF cur <= off /\ off > 0 THEN ShiftBackFar(cur, off - 1) ELSE off

\* while cur < off { off -= 1 }
RECURSIVE ShiftBack(_, _)
ShiftBack(cur, off) ==
    IF cur < off THEN ShiftBack(cur, off - 1) ELSE off

\* The second loop with its bound off by one: while cur > off + size.
RECURSIVE ShiftForwardLate(_, _, _)
ShiftForwardLate(cur, off, size) ==
    IF cur > off + size THEN ShiftForwardLate(cur, off + 1, size) ELSE off

\* while cur > off + size - 1 { off += 1 }; -1 stands for the panic of
\* off + size - 1 going below zero (size = 0 and off = 0).
RECURSIVE ShiftForward(_, _, _)
ShiftForward(cur, off, size) ==
    IF off + size = 0 THEN -1
    ELSE IF cur > off + size - 1 THEN ShiftForward(cur, off + 1, size)
    ELSE off

\* `checks` says whether the build checks integer overflow (a debug build
\* does and panics; a release build wraps around).  Without checks, an end
\* below its start gives a size near 2^16, and a bound off + size - 1 below
\* zero becomes usize::MAX, which no cursor exceeds: the second loop does
\* not run.
confine_frame(b, frame, checks) ==
    IF b.panicked THEN b
    ELSE IF /\ checks
            /\ \/ frame.end_row < frame.start_row
               \/ frame.end_col < frame.start_col
    THEN Panic(b)                                   \* u16 subtraction
    ELSE
      LET frame_height == (frame.end_row - frame.start_row) % 65536
          frame_width == (frame.end_col - frame.start_col) % 65536
          rows_back == ShiftBack(b.cur_row, b.buf_col)
          cols_back == ShiftBack(b.cur_col, b.buf_row)
          rows == ShiftForward(b.cur_row, rows_back, frame_height)
          cols == ShiftForward(b.cur_col, cols_back, frame_width)
          b1 == [b EXCEPT !.buf_col = IF rows = -1 THEN rows_back ELSE rows]
          b2 == [b1 EXCEPT !.buf_row = IF cols = -1 THEN cols_back ELSE cols]
      IN  IF rows = -1 /\ checks THEN Panic(b)
          ELSE IF cols = -1 /\ checks THEN Panic(b1)
          ELSE b2

\* window[row][col] can be indexed
GridOk(row, col) == row < MAX_ROWS /\ col < MAX_COLS

\* The inner loop of print's "print row" branch, from display column col.
\* st is [window, panicked].
RECURSIVE PaintLine(_, _, _, _, _, _)
PaintLine(st, row, col, end_col, line, data_col) ==
    IF st.panicked \/ col >= end_col THEN st
    ELSE IF ~GridOk(row, col) THEN [st EXCEPT !.panicked = TRUE]
    ELSE PaintLine(
           [st EXCEPT !.window[row][col] =
               IF data_col < Len(line) THEN line[data_col + 1] ELSE SPACE],
           row, col + 1, end_col, line, data_col + 1)

\* The loop of print's "line is empty" branch, from display column col.
RECURSIVE PaintBlank(_, _, _, _)
PaintBlank(st, row, col, end_col) ==
    IF st.panicked \/ col >= end_col THEN st
    ELSE IF ~GridOk(row, col) THEN [st EXCEPT !.panicked = TRUE]
    ELSE PaintBlank([st EXCEPT !.window[row][col] = SPACE],
                    row, col + 1, end_col)

\* print's outer loop, from display row `row` and Document row data_row.
\* print starts data_row at self.buf_col and data_col at self.buf_row.
RECURSIVE PaintRows(_, _, _, _, _)
PaintRows(st, b, frame, row, data_row) ==
    IF st.panicked \/ row >= frame.end_row THEN st
    ELSE
      LET st1 ==
            IF data_row < Len(b.data)
            THEN PaintLine(st, row, frame.start_col, frame.end_col,
                           b.data[data_row + 1], b.buf_row)
            ELSE IF ~GridOk(row, frame.start_col)
                 THEN [st EXCEPT !.panicked = TRUE]
                 ELSE PaintBlank(
                        [st EXCEPT !.window[row][frame.start_col] = TILDE],
                        row, frame.start_col + 1, frame.end_col)
      IN  PaintRows(st1, b, frame, row + 1, data_row + 1)

\* A print that takes the Document row from the column offset and the
\* Document column from the row offset.
print_swapped(b, w, frame, checks) ==
    LET b1 == confine_frame(b, frame, checks)
        sw == [b1 EXCEPT !.buf_row = b1.buf_col, !.buf_col = b1.buf_row]
        st == PaintRows([window |-> w, panicked |-> b1.panicked], sw, frame,
                        frame.start_row, sw.buf_col)
    IN  [buf |-> [b1 EXCEPT !.panicked = st.panicked], window |-> st.window]

\* Buffer::print: the buffer and the window it leaves.
print(b, w, frame, checks) ==
    LET b1 == confine_frame(b, frame, checks)
        st == PaintRows([window |-> w, panicked |-> b1.panicked], b1, frame,
                        frame.start_row, b1.buf_col)
    IN  [buf |-> [b1 EXCEPT !.panicked = st.panicked], window |-> st.window]

\* A row_in_frame that takes the column offset from the cursor's row.
row_in_frame_swapped(b) ==
    IF b.cur_row < b.buf_row THEN -1 ELSE b.cur_row - b.buf_row

\* Buffer::col_in_frame and row_in_frame: -1 stands for the panic of the
\* usize subtraction going below zero.
col_in_frame(b) == IF b.cur_col < b.buf_row THEN -1 ELSE b.cur_col - b.buf_row
row_in_frame(b) == IF b.cur_row < b.buf_col THEN -1 ELSE b.cur_row - b.buf_col

---------------------------------------------------------------------------
(* Saving: Buffer::save. *)

\* char -> its UTF-8 bytes (String::as_bytes), for code points below 2048.
Utf8Encode(c) ==
    IF c < 128 THEN <<c>> ELSE <<192 + (c \div 64), 128 + (c % 64)>>

RECURSIVE Utf8Bytes(_)
Utf8Bytes(chars) ==
    IF chars = <<>> THEN <<>>
    ELSE Utf8Encode(Head(chars)) \o Utf8Bytes(Tail(chars))

\* A fold of save that ends the last Line with a line feed too.
RECURSIVE SaveFoldTrailing(_, _, _)
SaveFoldTrailing(d, i, acc) ==
    IF i >= Len(d) THEN acc
    ELSE LET ext == acc \o d[i + 1]
             popped == SliceTo(ext, Len(ext) - 1)
         IN  SaveFoldTrailing(d, i + 1, popped \o <<LF>>)

\* The fold of save: acc after the lines from index i (0-based) on.
RECURSIVE SaveFold(_, _, _)
SaveFold(d, i, acc) ==
    IF i >= Len(d) THEN acc
    ELSE LET ext == acc \o d[i + 1]
             popped == SliceTo(ext, Len(ext) - 1)   \* acc.pop(), None ignored
             last_line_index == Len(d) - 1
         IN  SaveFold(d, i + 1,
                      IF i # last_line_index THEN popped \o <<LF>> ELSE popped)

\* byte_string.as_bytes() of save.
byte_string(d) == Utf8Bytes(SaveFold(d, 0, <<>>))

\* What the file system does with one save: File::create fails; or it
\* succeeds (truncating the file) and the single f.write call fails; or the
\* write returns Ok after taking the first n bytes (all of them, or fewer: a
\* short write, which save does not look at).
SaveOutcomes == {"create_failed", "write_failed", "written"}

\* The outcomes the file system can give a save of Document d: a write of
\* no bytes does not fail.
CanHappen(outcome, d) == outcome = "write_failed" => byte_string(d) # <<>>

\* Buffer::save with the file holding `file` before: the buffer and the file
\* after.
save(b, file, outcome, n) ==
    IF b.panicked THEN [buf |-> b, file |-> file]
    ELSE IF Len(b.data) = 0
    THEN [buf |-> Panic(b), file |-> file]          \* self.data.len() - 1
    ELSE IF outcome = "create_failed"
    THEN [buf |-> b, file |-> file]                 \* eprintln!
    ELSE IF outcome = "write_failed"
    THEN [buf |-> Panic(b), file |-> <<>>]          \* f.write(..).unwrap()
    ELSE [buf |-> b, file |-> SliceTo(byte_string(b.data), n)]

---------------------------------------------------------------------------
(* The state machine: one action per public method of Buffer. *)

NoFrame == Frame(0, 0, 0, 0)

Called(name, c, frame) == [name |-> name, c |-> c, frame |-> frame]

\* A call of save: how File::create and f.write went (outcome), the length
\* of the byte string handed to f.write (len) and how many of its bytes the
\* write took (c).
SaveCalled(outcome, n, len) ==
    [name |-> "save", c |-> n, frame |-> NoFrame,
     outcome |-> outcome, len |-> len]

\* Elements of the Document, sentinels included.
RECURSIVE Cells(_)
Cells(d) == IF d = <<>> THEN 0 ELSE Len(Head(d)) + Cells(Tail(d))

\* The files Buffer::new may find at the path: none, or any short text.
InitialFiles == {NoFile} \cup SeqsUpTo(FileBytes, MaxFileLen)

\* The frames print is called with here: non-empty rectangles inside the grid.
LegalFrames ==
    {Frame(sr, sc, er, ec) :
        sr \in 0..MAX_ROWS, sc \in 0..MAX_COLS,
        er \in 0..MAX_ROWS, ec \in 0..MAX_COLS}
    \cap {f \in [start_row : 0..MAX_ROWS, start_col : 0..MAX_COLS,
                  end_row : 0..MAX_ROWS, end_col : 0..MAX_COLS] :
            f.start_row < f.end_row /\ f.start_col < f.end_col}

BlankWindow == [r \in 0..(MAX_ROWS - 1) |-> [c \in 0..(MAX_COLS - 1) |-> SPACE]]

\* Rim::new: Buffer::new on a path holding one of `files`, a window of
\* blanks and a terminal of the grid's size; `history` says whether the
\* behaviour keeps pre.
InitWith(files, history) ==
    \E file \in files :
        /\ data = new(file).data
        /\ cur_col = new(file).cur_col
        /\ cur_row = new(file).cur_row
        /\ buf_row = new(file).buf_row
        /\ buf_col = new(file).buf_col
        /\ panicked = new(file).panicked
        /\ window = BlankWindow
        /\ saved = NoFile
        /\ op = Called("new", 0, NoFrame)
        /\ ret = FALSE
        /\ pc = "edit"
        /\ orig = [buf |-> new(NoFile), saved |-> NoFile]
        /\ pre = [on |-> history, buf |-> new(NoFile)]
        /\ steps = 0
        /\ window_width = MAX_COLS /\ window_height = MAX_ROWS
        /\ exit = FALSE

\* Editing without history, for the scenarios.
InitPlain == InitWith(InitialFiles, FALSE)

Init == InitWith(InitialFiles, TRUE)

\* The fields of the Buffer after a method left it as b.
Store(b) ==
    /\ data' = b.data
    /\ cur_col' = b.cur_col
    /\ cur_row' = b.cur_row
    /\ buf_row' = b.buf_row
    /\ buf_col' = b.buf_col
    /\ panicked' = b.panicked

\* The history after a method was called on Self.
Recorded == IF pre.on THEN [pre EXCEPT !.buf = Self] ELSE pre

\* A method can be called: nothing has panicked.
Running == ~panicked

InsertChar(c) ==
    /\ Running /\ pc = "edit"
    /\ Store(insert_char(Self, c))
    /\ op' = Called("insert_char", c, NoFrame)
    /\ pre' = Recorded
    /\ ret' = FALSE
    /\ UNCHANGED <<window, saved, pc, orig, steps, term>>

DeleteChar ==
    /\ Running /\ pc = "edit"
    /\ Store(delete_char(Self))
    /\ op' = Called("delete_char", 0, NoFrame)
    /\ pre' = Recorded
    /\ ret' = FALSE
    /\ UNCHANGED <<window, saved, pc, orig, steps, term>>

InsertNl ==
    /\ Running /\ pc = "edit"
    /\ Store(insert_nl(Self))
    /\ op' = Called("insert_nl", 0, NoFrame)
    /\ pre' = Recorded
    /\ ret' = FALSE
    /\ UNCHANGED <<window, saved, pc, orig, steps, term>>

JoinLine ==
    /\ Running /\ pc = "edit"
    /\ Store(join_line(Self))
    /\ op' = Called("join_line", 0, NoFrame)
    /\ pre' = Recorded
    /\ ret' = FALSE
    /\ UNCHANGED <<window, saved, pc, orig, steps, term>>

MoveUp ==
    /\ Running /\ pc = "edit"
    /\ Store(move_up(Self).buf)
    /\ op' = Called("move_up", 0, NoFrame)
    /\ pre' = Recorded
    /\ ret' = move_up(Self).ret
    /\ UNCHANGED <<window, saved, pc, orig, steps, term>>

MoveDown ==
    /\ Running /\ pc = "edit"
    /\ Store(move_down(Self).buf)
    /\ op' = Called("move_down", 0, NoFrame)
    /\ pre' = Recorded
    /\ ret' = move_down(Self).ret
    /\ UNCHANGED <<window, saved, pc, orig, steps, term>>

MoveLeft ==
    /\ Running /\ pc = "edit"
    /\ Store(move_left(Self))
    /\ op' = Called("move_left", 0, NoFrame)
    /\ pre' = Recorded
    /\ ret' = FALSE
    /\ UNCHANGED <<window, saved, pc, orig, steps, term>>

MoveRight ==
    /\ Running /\ pc = "edit"
    /\ Store(move_right(Self))
    /\ op' = Called("move_right", 0, NoFrame)
    /\ pre' = Recorded
    /\ ret' = FALSE
    /\ UNCHANGED <<window, saved, pc, orig, steps, term>>

Render(frame) ==
    /\ Running /\ pc = "edit"
    /\ \E checks \in BOOLEAN :
          LET printed == print(Self, window, frame, checks)
          IN  Store(printed.buf) /\ window' = printed.window
    /\ op' = Called("print", 0, frame)
    /\ pre' = Recorded
    /\ ret' = FALSE
    /\ UNCHANGED <<saved, pc, orig, steps, term>>

\* The edit operations, offered while the Document holds fewer than `max`
\* elements (the two that add an element) and with the characters `chars`.
Edit(chars, max) ==
    \/ \E c \in chars : Cells(data) < max /\ InsertChar(c)
    \/ DeleteChar
    \/ Cells(data) < max /\ InsertNl
    \/ JoinLine

Move ==
    \/ MoveUp
    \/ MoveDown
    \/ MoveLeft
    \/ MoveRight

\* An editing session: any sequence of edit operations and cursor moves
\* (Init has each step record the Buffer its operation was called on).
Next ==
    \/ Edit(Chars, MaxCells)
    \/ Move

Spec == Init /\ [][Next]_vars

---------------------------------------------------------------------------
(* An editing session with rendering: print is called with any legal frame *)
(* between the operations.  The window multiplies the states, so this      *)
(* session types one character only and keeps the Document smaller.        *)

MaxRenderCells == 3

RenderChars == {97}

InitRender ==
    InitWith({NoFile} \cup SeqsUpTo({97, LF}, MaxRenderCells - 1), FALSE)

NextRender ==
    \/ Edit(RenderChars, MaxRenderCells)
    \/ Move
    \/ \E frame \in LegalFrames : Render(frame)

SpecRender == InitRender /\ [][NextRender]_vars

---------------------------------------------------------------------------
(* Scrolling: the cursor is moved over a loaded Document and print is      *)
(* called with any legal frame, each step recording the Buffer it found.   *)

InitScroll ==
    InitWith({NoFile} \cup SeqsUpTo({97, LF}, MaxRenderCells - 1), TRUE)

NextScroll ==
    \/ Move
    \/ \E frame \in LegalFrames : Render(frame)

SpecScroll == InitScroll /\ [][NextScroll]_vars

---------------------------------------------------------------------------
(* Rendering into any rectangle of the grid, empty ones included: the      *)
(* cursor is moved over a loaded Document and print is called with any     *)
(* frame that has start_row <= end_row <= MAX_ROWS and start_col <=        *)
(* end_col <= MAX_COLS.                                                    *)

AnyFrames ==
    {f \in [start_row : 0..MAX_ROWS, start_col : 0..MAX_COLS,
             end_row : 0..MAX_ROWS, end_col : 0..MAX_COLS] :
        f.start_row <= f.end_row /\ f.start_col <= f.end_col}

InitFrames ==
    InitWith({NoFile} \cup SeqsUpTo({97, LF}, MaxRenderCells - 1), FALSE)

NextFrames ==
    \/ Move
    \/ \E frame \in AnyFrames : Render(frame)

SpecFrames == InitFrames /\ [][NextFrames]_vars

---------------------------------------------------------------------------
(* The event loop, Rim::run: the editor starts in a terminal of any size,  *)
(* draws the screen, and then handles key and resize events, drawing the   *)
(* screen again after each.  Terminal sizes are u16 in the source; here    *)
(* they go from 0 to MaxTerm, which is beyond the scaled-down grid.        *)

MaxTerm == 3

MaxRunCells == 2

\* Rim::refresh_screen with the terminal size (height, width): print into
\* the frame (0, 0, height, width), the loops that read window[row][col]
\* for row < height and col < width, and the cursor position from
\* col_in_frame and row_in_frame.  The buffer and the window it leaves.
refresh_screen(b, w, height, width, checks) ==
    LET printed == print(b, w, Frame(0, 0, height, width), checks)
        read_ok == \/ height = 0 \/ width = 0
                   \/ GridOk(height - 1, width - 1)
        cursor_ok == \/ ~checks
                     \/ /\ col_in_frame(printed.buf) # -1
                        /\ row_in_frame(printed.buf) # -1
    IN  [buf |-> IF printed.buf.panicked \/ (read_ok /\ cursor_ok)
                 THEN printed.buf ELSE Panic(printed.buf),
         window |-> printed.window]

\* Rim::process_key for a key without the control modifier.
process_key(b, code, c) ==
    CASE code = "Backspace" -> delete_char(b)
      [] code = "Enter" -> insert_nl(b)
      [] code = "Left" -> move_left(b)
      [] code = "Right" -> move_right(b)
      [] code = "Up" -> move_up(b).buf
      [] code = "Down" -> move_down(b).buf
      [] code = "Char" -> insert_char(b, c)
      [] OTHER -> b

KeyCodes == {"Backspace", "Enter", "Left", "Right", "Up", "Down", "Char"}

\* The end of every turn of the loop that had an event: refresh_screen on
\* the buffer b the event left, in a terminal of the size (height, width).
Refresh(b, height, width) ==
    /\ \E checks \in BOOLEAN :
          LET drawn == refresh_screen(b, window, height, width, checks)
          IN  Store(drawn.buf) /\ window' = drawn.window
    /\ window_height' = height /\ window_width' = width
    /\ op' = Called("refresh_screen", 0, Frame(0, 0, height, width))
    /\ pre' = Recorded
    /\ ret' = FALSE

\* self.refresh_screen() before the loop.
Start ==
    /\ Running /\ pc = "start"
    /\ Refresh(Self, window_height, window_width)
    /\ pc' = "loop"
    /\ UNCHANGED <<saved, orig, steps, exit>>

\* Event::Key without the control modifier.
KeyEvent(code, c) ==
    /\ Running /\ pc = "loop"
    /\ code \in {"Enter", "Char"} => Cells(data) < MaxRunCells
    /\ Refresh(process_key(Self, code, c), window_height, window_width)
    /\ UNCHANGED <<saved, pc, orig, steps, exit>>

\* Event::Key Ctrl+s.
CtrlS(outcome, n) ==
    /\ Running /\ pc = "loop"
    /\ CanHappen(outcome, data)
    /\ Refresh(save(Self, saved, outcome, n).buf, window_height, window_width)
    /\ saved' = save(Self, saved, outcome, n).file
    /\ UNCHANGED <<pc, orig, steps, exit>>

\* Event::Key Ctrl+q: the screen is drawn once more and the loop ends.
CtrlQ ==
    /\ Running /\ pc = "loop"
    /\ Refresh(Self, window_height, window_width)
    /\ exit' = TRUE
    /\ pc' = "done"
    /\ UNCHANGED <<saved, orig, steps>>

\* Event::Resize(cols, rows).
Resize(cols, rows) ==
    /\ Running /\ pc = "loop"
    /\ Refresh(Self, rows, cols)
    /\ UNCHANGED <<saved, pc, orig, steps, exit>>

\* Any other event, or a key that is not bound.
OtherEvent ==
    /\ Running /\ pc = "loop"
    /\ Refresh(Self, window_height, window_width)
    /\ UNCHANGED <<saved, pc, orig, steps, exit>>

\* Rim::new in a terminal of any size, on a path without a file.
InitRun ==
    \E cols \in 0..MaxTerm, rows \in 0..MaxTerm :
        /\ data = new(NoFile).data
        /\ cur_col = new(NoFile).cur_col
        /\ cur_row = new(NoFile).cur_row
        /\ buf_row = new(NoFile).buf_row
        /\ buf_col = new(NoFile).buf_col
        /\ panicked = new(NoFile).panicked
        /\ window = BlankWindow
        /\ saved = NoFile
        /\ op = Called("new", 0, NoFrame)
        /\ ret = FALSE
        /\ pc = "start"
        /\ orig = [buf |-> new(NoFile), saved |-> NoFile]
        /\ pre = [on |-> FALSE, buf |-> new(NoFile)]
        /\ steps = 0
        /\ window_width = cols /\ window_height = rows
        /\ exit = FALSE

NextRun ==
    \/ Start
    \/ \E code \in KeyCodes, c \in RenderChars : KeyEvent(code, c)
    \/ \E outcome \in SaveOutcomes, n \in 0..Len(byte_string(data)) :
          CtrlS(outcome, n)
    \/ CtrlQ
    \/ \E cols \in 0..MaxTerm, rows \in 0..MaxTerm : Resize(cols, rows)
    \/ OtherEvent

SpecRun == InitRun /\ [][NextRun]_vars

---------------------------------------------------------------------------
(* Scenario: insert_nl immediately followed by join_line. *)

Snapshot == [buf |-> Self, saved |-> saved]

SplitHere ==
    /\ Running /\ pc = "edit"
    /\ Cells(data) < MaxCells
    /\ Store(insert_nl(Self))
    /\ op' = Called("insert_nl", 0, NoFrame)
    /\ pre' = Recorded
    /\ ret' = FALSE
    /\ pc' = "split"
    /\ orig' = Snapshot
    /\ UNCHANGED <<window, saved, steps, term>>

JoinBack ==
    /\ Running /\ pc = "split"
    /\ Store(join_line(Self))
    /\ op' = Called("join_line", 0, NoFrame)
    /\ pre' = Recorded
    /\ ret' = FALSE
    /\ pc' = "joined"
    /\ UNCHANGED <<window, saved, orig, steps, term>>

NextSplitJoin ==
    \/ Edit(Chars, MaxCells)
    \/ Move
    \/ SplitHere
    \/ JoinBack

SpecSplitJoin == InitPlain /\ [][NextSplitJoin]_vars

---------------------------------------------------------------------------
(* Scenario: move_right repeated from (0,0). *)

\* How many calls are made beyond those that reach the end of the Document.
MaxExtraSteps == 2

StartWalk ==
    /\ Running /\ pc = "edit"
    /\ cur_row = 0 /\ cur_col = 0
    /\ pc' = "walk"
    /\ steps' = 0
    /\ op' = Called("start", 0, NoFrame)
    /\ pre' = Recorded
    /\ ret' = FALSE
    /\ UNCHANGED <<data, cur_col, cur_row, buf_row, buf_col, window, saved,
                   panicked, orig, term>>

WalkRight ==
    /\ Running /\ pc = "walk"
    /\ steps < Cells(data) - 1 + MaxExtraSteps
    /\ Store(move_right(Self))
    /\ steps' = steps + 1
    /\ op' = Called("move_right", 0, NoFrame)
    /\ pre' = Recorded
    /\ ret' = FALSE
    /\ UNCHANGED <<window, saved, pc, orig, term>>

NextWalk ==
    \/ Edit(Chars, MaxCells)
    \/ Move
    \/ StartWalk
    \/ WalkRight

SpecWalk == InitPlain /\ [][NextWalk]_vars

---------------------------------------------------------------------------
(* Scenario: save, load what was saved into a new Buffer, save again.      *)
(* The session types line separators and a two-byte character too.         *)

MaxIOCells == 4

IOChars == {97, 233, LF, CR}

\* One call of save in the scenario: on to `to` when the file took every
\* byte, to "failed" otherwise.
SaveStep(from, to, outcome, n) ==
    /\ Running /\ pc = from
    /\ CanHappen(outcome, data)
    /\ Store(save(Self, saved, outcome, n).buf)
    /\ saved' = save(Self, saved, outcome, n).file
    /\ op' = SaveCalled(outcome, n, Len(byte_string(data)))
    /\ pre' = Recorded
    /\ ret' = FALSE
    /\ pc' = IF outcome = "written" /\ n = Len(byte_string(data))
             THEN to ELSE "failed"
    /\ UNCHANGED <<window, steps, term>>

SaveFirst ==
    \E outcome \in SaveOutcomes, n \in 0..Len(byte_string(data)) :
        /\ SaveStep("edit", "saved", outcome, n)
        /\ orig' = [buf |-> Self, saved |-> saved']

\* Buffer::new on the path save wrote to.
Reload ==
    /\ Running /\ pc = "saved"
    /\ Store(new(saved))
    /\ op' = Called("new", 0, NoFrame)
    /\ pre' = Recorded
    /\ ret' = FALSE
    /\ pc' = "loaded"
    /\ UNCHANGED <<window, saved, orig, steps, term>>

SaveAgain ==
    \E outcome \in SaveOutcomes, n \in 0..Len(byte_string(data)) :
        /\ SaveStep("loaded", "resaved", outcome, n)
        /\ UNCHANGED orig

NextSaveLoad ==
    \/ Edit(IOChars, MaxIOCells)
    \/ Move
    \/ SaveFirst
    \/ Reload
    \/ SaveAgain

SpecSaveLoad == InitPlain /\ [][NextSaveLoad]_vars

---------------------------------------------------------------------------
(* Loading: the editor is started on a path that holds any short text of   *)
(* letters, line feeds and carriage returns, or no file; `saved` is that   *)
(* file, and the user moves the cursor over what was loaded.               *)

MaxLoadLen == 4

LoadBytes == {97, LF, CR}

InitLoad ==
    \E file \in {NoFile} \cup SeqsUpTo(LoadBytes, MaxLoadLen) :
        /\ data = new(file).data
        /\ cur_col = new(file).cur_col
        /\ cur_row = new(file).cur_row
        /\ buf_row = new(file).buf_row
        /\ buf_col = new(file).buf_col
        /\ panicked = new(file).panicked
        /\ window = BlankWindow
        /\ saved = file
        /\ op = Called("new", 0, NoFrame)
        /\ ret = FALSE
        /\ pc = "edit"
        /\ orig = [buf |-> new(NoFile), saved |-> NoFile]
        /\ pre = [on |-> FALSE, buf |-> new(NoFile)]
        /\ steps = 0
        /\ window_width = MAX_COLS /\ window_height = MAX_ROWS
        /\ exit = FALSE

NextLoad == Move

SpecLoad == InitLoad /\ [][NextLoad]_vars

---------------------------------------------------------------------------
(* An editing session in which the Document is saved at any time, the      *)
(* editor going on after each save that did not panic, and printed into a  *)
(* frame of one cell, which scrolls the viewport to the cursor.            *)

MaxSaveCells == 3

\* The session types a two-byte character; insert_nl gives the line feeds.
SaveChars == {233}

SaveFrames == {Frame(0, 0, 1, 1)}

\* Rim::process_key on Ctrl+s: self.buf.save().
Save(outcome, n) ==
    /\ Running /\ pc = "edit"
    /\ CanHappen(outcome, data)
    /\ Store(save(Self, saved, outcome, n).buf)
    /\ saved' = save(Self, saved, outcome, n).file
    /\ op' = SaveCalled(outcome, n, Len(byte_string(data)))
    /\ pre' = Recorded
    /\ ret' = FALSE
    /\ UNCHANGED <<window, pc, orig, steps, term>>

InitSave == InitWith({NoFile}, FALSE)

NextSave ==
    \/ Edit(SaveChars, MaxSaveCells)
    \/ Move
    \/ \E frame \in SaveFrames : Render(frame)
    \/ \E outcome \in SaveOutcomes, n \in 0..Len(byte_string(data)) :
          Save(outcome, n)

SpecSave == InitSave /\ [][NextSave]_vars

---------------------------------------------------------------------------
(* Properties of the editing session. *)

LineLen(row) == Len(data[row + 1])

\* C1: in every state of an editing session (started from the empty Document
\* or a loaded file without '\0', typing no '\0') the Document has at least
\* one Line, every Line has at least one element, the last element of every
\* Line is the sentinel and no earlier element is.
C1_DocumentShape ==
    /\ Len(data) >= 1
    /\ \A i \in 1..Len(data) :
          /\ Len(data[i]) >= 1
          /\ data[i][Len(data[i])] = NUL
          /\ \A k \in 1..(Len(data[i]) - 1) : data[i][k] # NUL

\* A Document of several Lines, one of them split in the middle of its text.
C1_Witness ==
    /\ op.name = "insert_nl"
    /\ Len(data) >= 3
    /\ LineLen(cur_row) >= 2
    /\ LineLen(cur_row - 1) >= 2

\* C2: in every state of an editing session nothing has indexed out of range
\* (no panic), row indexes a Line of the Document and col an element of that
\* Line, the sentinel at most.
C2_CursorInBounds ==
    /\ ~panicked
    /\ 0 <= cur_row /\ cur_row < Len(data)
    /\ 0 <= cur_col /\ cur_col <= LineLen(cur_row) - 1

\* The cursor has come down from the sentinel of a long Line onto the
\* sentinel of a shorter one.
C2_Witness ==
    /\ op.name = "move_down" /\ ret
    /\ pre.buf.cur_col = LineLen(cur_row - 1) - 1
    /\ pre.buf.cur_col > LineLen(cur_row) - 1
    /\ cur_col = LineLen(cur_row) - 1

FrameHeight(frame) == frame.end_row - frame.start_row
FrameWidth(frame) == frame.end_col - frame.start_col

\* C3: right after a print with a frame of height and width at least 1,
\* whatever came before, the cursor is inside the window the offsets name:
\* row offset <= row < row offset + height, column offset <= col < column
\* offset + width, and both offsets are non-negative.
C3_ViewportContainment ==
    op.name = "print" =>
        /\ ~panicked
        /\ 0 <= buf_col /\ buf_col <= cur_row
        /\ cur_row < buf_col + FrameHeight(op.frame)
        /\ 0 <= buf_row /\ buf_row <= cur_col
        /\ cur_col < buf_row + FrameWidth(op.frame)

\* A print that had to scroll down and right to reach the cursor.
C3_Witness ==
    /\ op.name = "print"
    /\ buf_col > 0 /\ cur_row = buf_col + FrameHeight(op.frame) - 1
    /\ buf_row > 0 /\ cur_col = buf_row + FrameWidth(op.frame) - 1

---------------------------------------------------------------------------
(* Effects of single operations, as properties of every step of an editing *)
(* session: op' names the method the step called, the unprimed variables   *)
(* are the state it was called in and the primed ones the state it left.   *)

Line(row) == data[row + 1]

CursorAt(row, col) == cur_row' = row /\ cur_col' = col

\* The effect C7 states for a vertical move to row `to` (cur_row - 1 or
\* cur_row + 1).
VerticalMove(to) ==
    /\ ~panicked'
    /\ data' = data
    /\ ret' = (0 <= to /\ to <= Len(data) - 1)
    /\ IF 0 <= to /\ to <= Len(data) - 1
       THEN CursorAt(to, Min(cur_col, Len(Line(to)) - 1))
       ELSE CursorAt(cur_row, cur_col)

\* C7: move_up (move_down) returns true and moves the cursor one row up
\* (down) iff that row exists, and then sets col to the smaller of the old
\* col and the new Line's sentinel index; otherwise it returns false and
\* leaves the cursor alone.  The Document is never modified.
C7_VerticalMoves ==
    [][ /\ op'.name = "move_up" => VerticalMove(cur_row - 1)
        /\ op'.name = "move_down" => VerticalMove(cur_row + 1) ]_vars

\* move_up has succeeded from the last column of a long Line onto a shorter
\* one, and col is that Line's sentinel index.
C7_Witness ==
    /\ op.name = "move_up" /\ ret
    /\ pre.buf.cur_row = cur_row + 1
    /\ pre.buf.cur_col = LineLen(pre.buf.cur_row) - 1
    /\ pre.buf.cur_col > LineLen(cur_row) - 1
    /\ cur_col = LineLen(cur_row) - 1

\* C8: move_left takes one from col when col > 0; at col 0 of a row > 0 it
\* moves to the sentinel of the Line above; at (0,0) it does nothing.  The
\* Document is never modified.
C8_MoveLeft ==
    [][ op'.name = "move_left" =>
          /\ ~panicked'
          /\ data' = data
          /\ IF cur_col > 0 THEN CursorAt(cur_row, cur_col - 1)
             ELSE IF cur_row > 0
             THEN CursorAt(cur_row - 1, Len(Line(cur_row - 1)) - 1)
             ELSE CursorAt(0, 0) ]_vars

\* move_left, called at column 0 of a row > 0, has left the cursor on the
\* sentinel of the Line above, which has text.
C8_Witness ==
    /\ op.name = "move_left"
    /\ pre.buf.cur_col = 0 /\ pre.buf.cur_row > 0
    /\ cur_row = pre.buf.cur_row - 1
    /\ cur_col = LineLen(cur_row) - 1
    /\ cur_col >= 1

\* C9: insert_char(c) makes the current Line old[0..col) ++ [c] ++ old[col..],
\* changes no other Line nor the number of Lines, and moves the cursor to
\* (row, col + 1): one column on, never to another row.
C9_InsertChar ==
    [][ op'.name = "insert_char" =>
          /\ ~panicked'
          /\ data' = [data EXCEPT ![cur_row + 1] =
                         SubSeq(@, 1, cur_col) \o <<op'.c>>
                         \o SubSeq(@, cur_col + 1, Len(@))]
          /\ CursorAt(cur_row, cur_col + 1) ]_vars

\* From the empty Document, 'a' then 'b' were typed, the second at the
\* sentinel: the Line is ['a','b','\0'] and the cursor at (0,2).
C9_Witness ==
    /\ op = Called("insert_char", 98, NoFrame)
    /\ pre.buf.data = << <<97, NUL>> >>
    /\ pre.buf.cur_row = 0 /\ pre.buf.cur_col = 1
    /\ data = << <<97, 98, NUL>> >>
    /\ cur_row = 0 /\ cur_col = 2

\* The Document after Lines row - 1 and row (row > 0) are merged into one:
\* the Line above without its sentinel, then the whole current Line.
Merged(row) ==
    SubSeq(data, 1, row - 1)
    \o << SubSeq(data[row], 1, Len(data[row]) - 1) \o data[row + 1] >>
    \o SubSeq(data, row + 2, Len(data))

\* C10: delete_char at col > 0 removes exactly the element at col - 1 of the
\* current Line, which is never its sentinel, and moves the cursor to
\* (row, col - 1); at col 0 of a row > 0 it does what join_line does, merging
\* the Line above and the current Line with the cursor at the boundary on
\* row - 1; at (0,0) it changes nothing.
C10_DeleteChar ==
    [][ op'.name = "delete_char" =>
          /\ ~panicked'
          /\ IF cur_col > 0
             THEN /\ data' = [data EXCEPT ![cur_row + 1] =
                                 SubSeq(@, 1, cur_col - 1)
                                 \o SubSeq(@, cur_col + 1, Len(@))]
                  /\ cur_col - 1 < Len(Line(cur_row)) - 1
                  /\ Line(cur_row)[cur_col] # NUL
                  /\ CursorAt(cur_row, cur_col - 1)
             ELSE IF cur_row > 0
             THEN /\ data' = Merged(cur_row)
                  /\ data' = join_line(Self).data
                  /\ CursorAt(cur_row - 1, Len(Line(cur_row - 1)) - 1)
                  /\ CursorAt(join_line(Self).cur_row, join_line(Self).cur_col)
             ELSE data' = data /\ CursorAt(0, 0) ]_vars

\* delete_char, called at column 0 of the second of two Lines with text,
\* has merged them into one.
C10_Witness ==
    /\ op.name = "delete_char"
    /\ pre.buf.cur_col = 0 /\ pre.buf.cur_row = 1
    /\ pre.buf.data = << <<97, NUL>>, <<98, NUL>> >>
    /\ data = << <<97, 98, NUL>> >>
    /\ cur_row = 0 /\ cur_col = 1

\* C11: insert_nl adds exactly one Line: Line row becomes old[0..col) and a
\* fresh sentinel, the new Line row + 1 is old[col..], the Lines before row
\* are unchanged, the Lines after it move down by one, and the cursor goes
\* to (row + 1, 0).
C11_InsertNl ==
    [][ op'.name = "insert_nl" =>
          /\ ~panicked'
          /\ Len(data') = Len(data) + 1
          /\ data' = SubSeq(data, 1, cur_row)
                     \o << SubSeq(Line(cur_row), 1, cur_col) \o <<NUL>>,
                           SubSeq(Line(cur_row), cur_col + 1,
                                  Len(Line(cur_row))) >>
                     \o SubSeq(data, cur_row + 2, Len(data))
          /\ CursorAt(cur_row + 1, 0) ]_vars

\* insert_nl, called on the sentinel of ['a','b','\0'] with an empty Line
\* below, has put an empty Line between the two and the cursor at (1,0).
C11_Witness ==
    /\ op.name = "insert_nl"
    /\ pre.buf.data = << <<97, 98, NUL>>, <<NUL>> >>
    /\ pre.buf.cur_row = 0 /\ pre.buf.cur_col = 2
    /\ data = << <<97, 98, NUL>>, <<NUL>>, <<NUL>> >>
    /\ cur_row = 1 /\ cur_col = 0

\* C12: join_line at row 0 changes nothing; at row > 0 (whatever the
\* column) it leaves one Line fewer, Line row - 1 being the old Line
\* row - 1 without its sentinel followed by the old Line row, every other
\* Line keeping its content, and puts the cursor on row - 1 at the join
\* point, the length of the old Line row - 1 without its sentinel.
C12_JoinLine ==
    [][ op'.name = "join_line" =>
          /\ ~panicked'
          /\ IF cur_row = 0
             THEN data' = data /\ CursorAt(cur_row, cur_col)
             ELSE /\ Len(data') = Len(data) - 1
                  /\ data' = Merged(cur_row)
                  /\ \A k \in 1..Len(data'[cur_row]) :
                        data'[cur_row][k] = NUL <=> k = Len(data'[cur_row])
                  /\ CursorAt(cur_row - 1, Len(Line(cur_row - 1)) - 1) ]_vars

\* join_line, called in the middle of the second of two Lines with text,
\* has merged them and put the cursor where the first one ended.
C12_Witness ==
    /\ op.name = "join_line"
    /\ pre.buf.cur_row = 1 /\ pre.buf.cur_col = 1
    /\ pre.buf.data = << <<97, NUL>>, <<98, 97, NUL>> >>
    /\ data = << <<97, 98, 97, NUL>> >>
    /\ cur_row = 0 /\ cur_col = 1

---------------------------------------------------------------------------
(* Properties of rendering.  The row offset is the field buf_col and the   *)
(* column offset the field buf_row.                                        *)

\* What C16 has the cell for Document position (d, k) show when it is
\* display column c of a frame starting at column start_col.
Shown(d, k, c, start_col) ==
    IF d < Len(data)
    THEN IF k < Len(Line(d)) THEN Line(d)[k + 1] ELSE SPACE
    ELSE IF c = start_col THEN TILDE ELSE SPACE

\* C16: right after a print with a legal frame, every cell (r, c) of the
\* frame shows the Document at row d = row offset + (r - start_row) and
\* column k = column offset + (c - start_col): the element there, a blank
\* past the end of Line d, and past the last Line '~' in the frame's first
\* column and a blank elsewhere.
C16_PaintContract ==
    op.name = "print" =>
        /\ ~panicked
        /\ \A r \in op.frame.start_row..(op.frame.end_row - 1) :
           \A c \in op.frame.start_col..(op.frame.end_col - 1) :
              window[r][c] = Shown(buf_col + (r - op.frame.start_row),
                                   buf_row + (c - op.frame.start_col),
                                   c, op.frame.start_col)

\* Three empty Lines printed into the whole grid with the viewport on the
\* last: its sentinel and a blank above, '~' and a blank below.
C16_Witness ==
    /\ op.name = "print" /\ op.frame = Frame(0, 0, 2, 2)
    /\ data = << <<NUL>>, <<NUL>>, <<NUL>> >>
    /\ buf_col = 2
    /\ window[0][0] = NUL /\ window[0][1] = SPACE
    /\ window[1][0] = TILDE /\ window[1][1] = SPACE

InFrame(r, c, frame) ==
    /\ frame.start_row <= r /\ r < frame.end_row
    /\ frame.start_col <= c /\ c < frame.end_col

\* C17: a print with any frame that has start_row <= end_row <= MAX_ROWS
\* and start_col <= end_col <= MAX_COLS, whatever the Document, the cursor
\* and the grid before it, leaves every cell outside the frame as it was
\* and the Document and the cursor unchanged.
C17_FrameEffect ==
    [][ op'.name = "print" =>
          /\ \A r \in 0..(MAX_ROWS - 1) : \A c \in 0..(MAX_COLS - 1) :
                ~InFrame(r, c, op'.frame) => window'[r][c] = window[r][c]
          /\ data' = data
          /\ cur_row' = cur_row /\ cur_col' = cur_col ]_vars

\* The offset C18 has a print leave: the cursor's own position when that is
\* before the old offset, the least offset that shows the cursor when it
\* is past the old viewport, the old offset otherwise.
Corrected(cur, old, size) ==
    IF cur < old THEN cur
    ELSE IF cur > old + size - 1 THEN cur - size + 1
    ELSE old

\* C18: a print with a legal frame of height H and width W leaves the row
\* offset and the column offset Corrected from the old ones, unchanged when
\* the cursor was inside the viewport already; and a second print with the
\* same frame right after it would change neither offsets nor grid.
C18_MinimalCorrection ==
    [][ op'.name = "print" =>
          /\ ~panicked'
          /\ buf_col' = Corrected(cur_row, buf_col, FrameHeight(op'.frame))
          /\ buf_row' = Corrected(cur_col, buf_row, FrameWidth(op'.frame))
          /\ (/\ buf_col <= cur_row
              /\ cur_row < buf_col + FrameHeight(op'.frame)
              /\ buf_row <= cur_col
              /\ cur_col < buf_row + FrameWidth(op'.frame))
             => (buf_col' = buf_col /\ buf_row' = buf_row)
          /\ \A checks \in BOOLEAN :
                print(Self', window', op'.frame, checks)
                    = [buf |-> Self', window |-> window'] ]_vars

\* A print into a frame two rows high found the cursor above the viewport
\* and brought the row offset back to the cursor's row.
C18_Witness ==
    /\ op.name = "print" /\ FrameHeight(op.frame) = 2
    /\ pre.buf.cur_row = cur_row
    /\ pre.buf.buf_col > cur_row
    /\ buf_col = cur_row

\* C19: right after a print with a legal frame, row_in_frame() is the
\* cursor's row less the row offset and below the frame's height,
\* col_in_frame() the cursor's column less the column offset and below the
\* frame's width, neither subtraction going below zero, and the cell at
\* (start_row + row_in_frame(), start_col + col_in_frame()) holds the
\* element under the cursor.
C19_OnScreenCursor ==
    op.name = "print" =>
        /\ ~panicked
        /\ row_in_frame(Self) # -1 /\ col_in_frame(Self) # -1
        /\ row_in_frame(Self) = cur_row - buf_col
        /\ row_in_frame(Self) < FrameHeight(op.frame)
        /\ col_in_frame(Self) = cur_col - buf_row
        /\ col_in_frame(Self) < FrameWidth(op.frame)
        /\ window[op.frame.start_row + row_in_frame(Self)]
                 [op.frame.start_col + col_in_frame(Self)]
              = Line(cur_row)[cur_col + 1]

\* The cursor is on the second 'a' of a Line printed into the one-cell
\* frame at (1,1): the viewport has scrolled right and the cell shows 'a'.
C19_Witness ==
    /\ op.name = "print" /\ op.frame = Frame(1, 1, 2, 2)
    /\ data = << <<97, 97, NUL>> >>
    /\ cur_row = 0 /\ cur_col = 1 /\ buf_row = 1
    /\ window[1][1] = 97

\* C20: every frame the event loop draws, for the terminal size found at
\* startup or brought by a resize event, lies inside the grid with a
\* height and a width of at least 1, and drawing it does not panic.
C20_FramesFitGrid ==
    op.name = "refresh_screen" =>
        /\ 1 <= FrameHeight(op.frame) /\ op.frame.end_row <= MAX_ROWS
        /\ 1 <= FrameWidth(op.frame) /\ op.frame.end_col <= MAX_COLS
        /\ ~panicked

---------------------------------------------------------------------------
(* Properties of loading. *)

\* The positions (from 1) of the line feeds and carriage returns of a text.
Separators(text) == {p \in 1..Len(text) : text[p] = LF \/ text[p] = CR}

\* The position of the j-th separator of a text; 0 for j = 0 and one past
\* the end for j beyond the last.
NthSeparator(text, j) ==
    IF j = 0 THEN 0
    ELSE IF j > Cardinality(Separators(text)) THEN Len(text) + 1
    ELSE CHOOSE p \in Separators(text) :
             Cardinality({q \in Separators(text) : q < p}) = j - 1

\* The i-th (from 1) maximal separator-free segment of a text.
Segment(text, i) ==
    SubSeq(text, NthSeparator(text, i - 1) + 1, NthSeparator(text, i) - 1)

\* C14: a Buffer just made by Buffer::new on a file whose text has k line
\* feeds and carriage returns holds exactly k + 1 Lines, the i-th being the
\* i-th maximal separator-free segment of the text with a sentinel after
\* it; made on a path without a file it holds one Line, the sentinel alone;
\* cursor and viewport offsets are 0 either way.
C14_LoadFormat ==
    op.name = "new" =>
        /\ ~panicked
        /\ cur_row = 0 /\ cur_col = 0 /\ buf_row = 0 /\ buf_col = 0
        /\ IF saved = NoFile
           THEN data = << <<NUL>> >>
           ELSE LET text == Utf8Decode(saved).chars
                    k == Cardinality(Separators(text))
                IN  /\ Len(data) = k + 1
                    /\ \A i \in 1..(k + 1) :
                          data[i] = Segment(text, i) \o <<NUL>>

\* "a\r\na" has been loaded: three Lines, the middle one empty.
C14_Witness ==
    /\ op.name = "new"
    /\ saved = <<97, CR, LF, 97>>
    /\ data = << <<97, NUL>>, <<NUL>>, <<97, NUL>> >>

---------------------------------------------------------------------------
(* Properties of saving. *)

Content(line) == SubSeq(line, 1, Len(line) - 1)

\* The text C13 describes: the characters of each Line without its
\* sentinel, a line feed after each Line but the last.
RECURSIVE JoinedText(_)
JoinedText(d) ==
    IF d = <<>> THEN <<>>
    ELSE IF Len(d) = 1 THEN Content(d[1])
    ELSE Content(d[1]) \o <<LF>> \o JoinedText(Tail(d))

BufferUnchanged ==
    /\ data' = data
    /\ cur_row' = cur_row /\ cur_col' = cur_col
    /\ buf_row' = buf_row /\ buf_col' = buf_col

\* C13: a save whose write takes every byte it is handed leaves in the file
\* the UTF-8 text of the Lines without their sentinels, a line feed after
\* each of the first n - 1 Lines and nothing after the last; and no save,
\* however it goes, modifies the Document, the cursor or the viewport
\* offsets.
C13_SaveFormat ==
    [][ op'.name = "save" =>
          /\ BufferUnchanged
          /\ (op'.outcome = "written" /\ op'.c = op'.len) =>
                /\ ~panicked'
                /\ Utf8Decode(saved') = [ok |-> TRUE,
                                         chars |-> JoinedText(data)] ]_vars

\* A complete save of two Lines, the first holding a two-byte character and
\* the last empty, with the viewport scrolled down to the cursor.
C13_Witness ==
    /\ op.name = "save" /\ op.outcome = "written" /\ op.c = op.len
    /\ data = << <<233, NUL>>, <<NUL>> >>
    /\ saved = <<195, 169, LF>>
    /\ cur_row = 1 /\ buf_col = 1

\* C15: a save that fails, at File::create or in the write, leaves the
\* Document, the cursor and the viewport offsets as they were and the
\* editor running.
C15_SaveErrorsNonFatal ==
    [][ (op'.name = "save" /\ op'.outcome # "written") =>
          /\ BufferUnchanged
          /\ ~panicked' ]_vars

---------------------------------------------------------------------------
(* Properties of the scenarios. *)

\* C4: insert_nl immediately followed by join_line, from any state of an
\* editing session (so at every column of the current Line, the sentinel's
\* included), leaves the Document as it was, Line for Line, and the cursor
\* at the (row, col) it had.
C4_SplitJoinRoundTrip ==
    pc = "joined" =>
        /\ ~panicked
        /\ data = orig.buf.data
        /\ cur_row = orig.buf.cur_row
        /\ cur_col = orig.buf.cur_col

\* The round trip of a split in the middle of the text of a Line that is
\* neither the first nor the last.
C4_Witness ==
    /\ pc = "joined"
    /\ orig.buf.cur_row > 0 /\ orig.buf.cur_row < Len(orig.buf.data) - 1
    /\ orig.buf.cur_col > 0
    /\ orig.buf.cur_col < Len(orig.buf.data[orig.buf.cur_row + 1]) - 1

HasCR(d) == \E i \in 1..Len(d) : \E k \in 1..Len(d[i]) : d[i][k] = CR

\* C5: when a Document without carriage returns is saved, the saved bytes
\* are loaded into a new Buffer and that Buffer is saved (every save writing
\* all its bytes), the second save's bytes are those of the first.
C5_SaveLoadRoundTrip ==
    (pc = "resaved" /\ ~HasCR(orig.buf.data)) =>
        /\ ~panicked
        /\ saved = orig.saved

\* The round trip of a Document of several Lines, the last one empty, that
\* holds a two-byte character and a typed line feed.
C5_Witness ==
    /\ pc = "resaved" /\ ~HasCR(orig.buf.data)
    /\ Len(orig.buf.data) >= 2
    /\ orig.buf.data[Len(orig.buf.data)] = <<NUL>>
    /\ \E k \in 1..Len(orig.buf.data[1]) : orig.buf.data[1][k] = 233
    /\ \E k \in 1..Len(orig.buf.data[1]) : orig.buf.data[1][k] = LF

\* The index of cursor position (row, col) in row-major order.
Rank(d, row, col) == Cells(SliceTo(d, row)) + col

\* C6: after n calls of move_right from (0,0) nothing has panicked and the
\* cursor is on the n-th position of the Document in row-major order while
\* n is below the number of elements, less one, and on the last position,
\* the sentinel of the last Line, from then on.
C6_WalkRight ==
    pc = "walk" =>
        /\ ~panicked
        /\ cur_row < Len(data) /\ cur_col < LineLen(cur_row)
        /\ Rank(data, cur_row, cur_col) = Min(steps, Cells(data) - 1)
        /\ steps >= Cells(data) - 1 =>
              (cur_row = Len(data) - 1 /\ cur_col = LineLen(cur_row) - 1)

\* The walk over a Document of several Lines, one with text, has gone on
\* past the end.
C6_Witness ==
    /\ pc = "walk"
    /\ steps > Cells(data) - 1
    /\ Len(data) >= 3
    /\ \E i \in 1..Len(data) : Len(data[i]) >= 3
    /\ cur_row = Len(data) - 1 /\ cur_col = LineLen(cur_row) - 1

=============================================================================
